---- MODULE Spec2Model ----
(***************************************************************************)
(* Sun Moon Tracker (Lens Studio script): the request gate of getSun and   *)
(* getMoon, the shared heading sample, the tilt gate and the per-frame     *)
(* pollers, as a state machine.                                            *)
(*                                                                         *)
(* Units.  getTime() is a float in seconds; the model counts time in ticks *)
(* of 0.05 s, so headingLifetime (.15 s) is 3 and initialWait (1 s) is 20. *)
(* Angles of tilt are in tenths of a radian (uprightThreshold .7 is 7),    *)
(* headings in hundredths of a degree (180 degrees is 18000).              *)
(*                                                                         *)
(* The script may be constructed at any uptime; the model constructs it    *)
(* StartTime ticks after lens start, shortly before the warm-up interval   *)
(* ends, and follows the clock up to MaxTime.                              *)
(*                                                                         *)
(* A JavaScript variable that may be undefined is a sequence: <<>> is      *)
(* undefined and <<v>> holds v.                                            *)
(***************************************************************************)
EXTENDS Integers, Sequences, FiniteSets, TLC

VARIABLES
    now,              \* getTime(): ticks since lens start
    tracking,         \* script.deviceTracking is set
    cam,              \* the tracking object has a Camera component
    specs,            \* global.deviceInfoSystem.isSpectacles()
    frontCameraFlip,  \* <<>> | <<FALSE>> | <<TRUE>>
    isSearching,      \* OrbType[k].isSearching
    locationService,  \* <<>> | <<"service">>
    headingHandlers,  \* handlers added to onNorthAlignedOrientationUpdate
    foundHeading,     \* <<>> | <<h>>
    foundHeadingTime, \* <<>> | <<t>>
    tilt,             \* <<>> | <<angle>>
    requests,         \* one record per accepted getOrb call (its closure)
    lastEvent         \* what the last handler did that a caller or the provider can observe

vars == <<now, tracking, cam, specs, frontCameraFlip, isSearching, locationService,
          headingHandlers, foundHeading, foundHeadingTime, tilt, requests, lastEvent>>

\* everything but the clock and the observation of the last handler
trackerVars == <<tracking, cam, specs, frontCameraFlip, isSearching, locationService,
                 headingHandlers, foundHeading, foundHeadingTime, tilt, requests>>

----------------------------------------------------------------------------
\* Bounds of the model

StartTime == 18   \* getTime() when the script is constructed
MaxTime == 22     \* the clock stops here
MaxReq == 2       \* accepted requests

\* Values the environment can deliver
OrbKinds == {"Sun", "Moon"}
HeadingValues == {0, 9000}
RollValues == {-8, 0, 7}
Fixes == {"fixA", "fixB"}
ProviderErrors == {"errDenied", "errTimeout"}

----------------------------------------------------------------------------
\* settings

initialWait == 20
headingLifetime == 3
flipHeadingOnSpectacles == TRUE
awaitUpright == TRUE
uprightThreshold == 7
tiltHeadingOffset == 75

\* logging
title == "[SunMoonTracker] "
noCallback == "No onSuccess callback given!"
alreadyActive == "Aborted because a search is already active."

----------------------------------------------------------------------------
\* JavaScript helpers

Undefined == <<>>

\* truthiness of a number-or-undefined: undefined and 0 are falsy
Truthy(x) == x # <<>> /\ x[1] # 0

\* truthiness of a boolean-or-undefined
TruthyBool(x) == x # <<>> /\ x[1]

Abs(x) == IF x < 0 THEN -x ELSE x

getTime == now


----------------------------------------------------------------------------
\* helpers of the script

\* (variant: the callback check placed after the contention check)
usageError_afterContention(onSuccessIsFunction, orbType) ==
    ~onSuccessIsFunction /\ ~isSearching[orbType]

\* onSuccess callback check: getOrb throws when onSuccess is not a function
usageError(onSuccessIsFunction, orbType) == ~onSuccessIsFunction

\* (variant: the contention check dropped)
orbIsSearching_never(orbType) == FALSE

\* only 1 search at a time
orbIsSearching(orbType) == isSearching[orbType]

\* (variant: the flag is not set on acceptance)
setSearching_forgot(s, orbType) == s

\* orbType.isSearching = true, on the flags s
setSearching(s, orbType) == [s EXCEPT ![orbType] = TRUE]

\* (variant: a service created for every accepted request)
serviceMissing_always == TRUE

\* create service once: if(!locationService)
serviceMissing == locationService = Undefined

\* (variant: the warm-up ends one comparison early)
lensStarted_inclusive == getTime >= initialWait

\* await lens start
lensStarted == getTime > initialWait

\* (variant: a sample aged exactly the threshold still counts as recent)
checkTimeStamp_inclusive(t, threshold) == getTime - t[1] <= threshold

\* check if a timestamp is over threshold
checkTimeStamp(t, threshold) == getTime - t[1] < threshold

\* the angle checkTilt computes from the tracking transform's forward and up
\* vectors: the roll of the device about its forward axis
offsetAngle(roll) == roll

\* (variant: the angle compared without Math.abs)
checkTilt_signed(roll) == awaitUpright /\ offsetAngle(roll) > uprightThreshold

\* checkTilt's return value: true when the device is not upright
checkTilt(roll) == awaitUpright /\ Abs(offsetAngle(roll)) > uprightThreshold

\* the first two conjuncts of isReady; checkTilt only runs when they hold
headingFresh == Truthy(foundHeading) /\ checkTimeStamp(foundHeadingTime, headingLifetime)

isReady(roll) == headingFresh /\ ~checkTilt(roll)

\* whether isReady gets as far as calling checkTilt, and measuring the angle
tiltMeasured == headingFresh /\ awaitUpright

\* (variant: checkTilt does not store the angle it measured)
tiltAfterIsReady_notStored(roll) == tilt

\* the tilt variable after isReady has run: checkTilt stores the angle it measured
tiltAfterIsReady(roll) == IF tiltMeasured THEN <<offsetAngle(roll)>> ELSE tilt

remap(value, low1, high1, low2, high2) ==
    low2 + ((high2 - low2) * (value - low1)) \div (high1 - low1)

\* hundredths of a degree of (tiltHeadingOffset/2) * uprightThreshold
tiltOffsetRange == tiltHeadingOffset * uprightThreshold * 5

\* interpretTrackingData's working copy of the heading, as reported in info.userHeading
userHeading(t) ==
    LET h0 == foundHeading[1]
        h1 == IF TruthyBool(frontCameraFlip) THEN -h0 ELSE h0
        h2 == IF specs /\ flipHeadingOnSpectacles THEN h1 + 18000 ELSE h1
    IN  IF Truthy(t)
        THEN h2 - remap(t[1], -uprightThreshold, uprightThreshold, -tiltOffsetRange, tiltOffsetRange)
        ELSE h2

----------------------------------------------------------------------------
\* observations

NoInfo == [name |-> "", userHeading |-> 0, fix |-> "", date |-> 0,
           azimuth |-> "", altitude |-> "", distance |-> ""]
NoUsed == [heading |-> <<>>, headingTime |-> <<>>, tilt |-> <<>>, frontCameraFlip |-> <<>>,
           orbAzimuth |-> ""]

\* what a handler was given and what it did: its arguments (input), the message it
\* threw, the callbacks it invoked (with their argument), the getCurrentPosition
\* calls it made, whether it ran a readiness check (checked), with which device
\* roll, and whether that check got as far as measuring the tilt (measured); what the
\* onSuccess it invoked did (callback), the isSearching flag of the kind when it was
\* invoked (searchingAtSuccess) and the request a getOrb call made from inside it
\* created (spawned)
NoEvent == [op |-> "init", req |-> 0, orbType |-> "", input |-> <<>>, threw |-> "",
            onSuccess |-> 0, onFail |-> 0, failArg |-> "", fetch |-> 0,
            checked |-> FALSE, roll |-> <<>>, measured |-> FALSE,
            info |-> NoInfo, used |-> NoUsed,
            callback |-> "", searchingAtSuccess |-> <<>>, spawned |-> 0]

\* the clock and the camera invoke no callback of a request
EnvEvent == [NoEvent EXCEPT !.op = "env"]

\* nor does the heading stream
HeadingEvent(h) == [NoEvent EXCEPT !.op = "headingUpdate", !.input = <<h>>]

Event(op, i, k, input) == [NoEvent EXCEPT !.op = op, !.req = i, !.orbType = k, !.input = input]

NewRequest(k, hasOnFail) ==
    [orbType |-> k, hasOnFail |-> hasOnFail, foundPosition |-> Undefined,
     initialWaitEvent |-> FALSE, awaitingHeading |-> FALSE,
     fetchPending |-> 0, nFetch |-> 0, nSuccess |-> 0, nFail |-> 0]

\* number of getCurrentPosition calls made so far
fetchCount == LET RECURSIVE Sum(_)
                  Sum(n) == IF n = 0 THEN 0 ELSE requests[n].nFetch + Sum(n - 1)
              IN  Sum(Len(requests))

----------------------------------------------------------------------------
\* the nested functions of getOrb, as the effect they have on the closure r of
\* request i, on the isSearching flags s and on tilt (t is its value when the
\* function runs); roll is the roll of the device while the handler runs and ev
\* the observation so far

\* new Date(): the wall clock runs with getTime(); a date is counted in ticks since
\* the lens started
newDate == now

\* foundPosition.latitude, foundPosition.longitude
latitude(p) == <<p, "latitude">>
longitude(p) == <<p, "longitude">>

\* orbType.getPosition(date, lat, long): getSunPosition and getMoonPosition compute
\* from their three arguments and constants only, so each value they return is a
\* term over the kind and the arguments
getPosition(orbType, date, lat, long) ==
    LET value(of) == [of |-> of, orbType |-> orbType, date |-> date, lat |-> lat, long |-> long]
    IN  [azimuth |-> value("azimuth"), altitude |-> value("altitude"),
         distance |-> value("distance")]

\* (variant: the azimuth not reversed on front cam)
localAzimuth_unmirrored(azimuth) == azimuth

\* the azimuth given to orbDirection: reversed on front cam
localAzimuth(azimuth) ==
    IF TruthyBool(frontCameraFlip) THEN [azimuth EXCEPT !.of = "180 - azimuth"] ELSE azimuth

\* (variant: the result reports the azimuth given to orbDirection)
reportedAzimuth_local(orbSkyLocation) == localAzimuth(orbSkyLocation.azimuth)

\* const azimuth = orbSkyLocation.azimuth, as placed in info
reportedAzimuth(orbSkyLocation) == orbSkyLocation.azimuth

\* (variant: the warm-up poller left bound)
removeInitialWaitEvent_forgot(r) == r

\* script.removeEvent(initialWaitEvent), on the closure r
removeInitialWaitEvent(r) == [r EXCEPT !.initialWaitEvent = FALSE]

\* (variant: the readiness poller left bound)
removeAwaitingHeading_forgot(r) == r

\* script.removeEvent(awaitingHeading), on the closure r
removeAwaitingHeading(r) == [r EXCEPT !.awaitingHeading = FALSE]

\* what an onSuccess callback may do with the result
Callbacks == {"returns", "throws", "getOrb"}

\* what onSuccess does matters only to a handler that invokes it
callbacksWhen(invoked) == IF invoked THEN Callbacks ELSE {"returns"}

\* (variant: one flag shared by the kinds)
clearSearching_all(s, orbType) == [k \in OrbKinds |-> FALSE]

\* (variant: the flag released only after onSuccess has returned)
clearSearching_late(s, orbType) == s

\* new searches can be started from now on: orbType.isSearching = false, on the flags s
clearSearching(s, orbType) == [s EXCEPT ![orbType] = FALSE]

\* the onSuccess of request r running under the flags s: it returns, throws, or calls
\* getSun/getMoon for the same kind with the same callbacks; such a call creates
\* request j when accepted (its closure has no foundPosition yet)
onSuccess(j, r, s, cb, ev) ==
    IF cb # "getOrb"
    THEN [s |-> s, spawn |-> <<>>, ev |-> ev]
    ELSE IF s[r.orbType]
    THEN [s |-> s, spawn |-> <<>>,
          ev |-> [ev EXCEPT !.onFail = IF r.hasOnFail THEN @ + 1 ELSE @,
                            !.failArg = IF r.hasOnFail THEN alreadyActive ELSE @]]
    ELSE IF lensStarted
    THEN [s |-> setSearching(s, r.orbType),
          spawn |-> <<[NewRequest(r.orbType, r.hasOnFail)
                           EXCEPT !.fetchPending = 1, !.nFetch = 1]>>,
          ev |-> [ev EXCEPT !.fetch = @ + 1, !.spawned = j]]
    ELSE [s |-> setSearching(s, r.orbType),
          spawn |-> <<[NewRequest(r.orbType, r.hasOnFail) EXCEPT !.initialWaitEvent = TRUE]>>,
          ev |-> [ev EXCEPT !.spawned = j]]

\* once all data is ready, do sun calculation; j is the index a request created from
\* inside onSuccess gets and cb what onSuccess does
interpretTrackingData(i, r, s, t, j, cb, ev) ==
    LET s1 == clearSearching(s, r.orbType)
        p == r.foundPosition[1]
        date == newDate
        orbSkyLocation == getPosition(r.orbType, date, latitude(p), longitude(p))
        ev1 == [ev EXCEPT !.onSuccess = @ + 1,
                          !.callback = cb,
                          !.searchingAtSuccess = <<s1[r.orbType]>>,
                          !.info = [name |-> r.orbType,
                                    userHeading |-> userHeading(t),
                                    fix |-> p,
                                    date |-> date,
                                    azimuth |-> reportedAzimuth(orbSkyLocation),
                                    altitude |-> orbSkyLocation.altitude,
                                    distance |-> orbSkyLocation.distance],
                          !.used = [heading |-> foundHeading,
                                    headingTime |-> foundHeadingTime,
                                    tilt |-> t,
                                    frontCameraFlip |-> frontCameraFlip,
                                    orbAzimuth |-> localAzimuth(orbSkyLocation.azimuth)]]
        called == onSuccess(j, r, s1, cb, ev1)
    IN  [req   |-> [r EXCEPT !.nSuccess = @ + 1],
         s     |-> called.s,
         tilt  |-> t,
         spawn |-> called.spawn,
         ev    |-> called.ev]

onPositionFound(i, r, p, s, roll, j, cb, ev) ==
    LET r1 == [r EXCEPT !.foundPosition = <<p>>]
        ev1 == [ev EXCEPT !.checked = TRUE, !.roll = <<roll>>, !.measured = tiltMeasured]
    IN  IF isReady(roll)
        THEN interpretTrackingData(i, r1, s, tiltAfterIsReady(roll), j, cb, ev1)
        ELSE [req   |-> [r1 EXCEPT !.awaitingHeading = TRUE],
              s     |-> s,
              tilt  |-> tiltAfterIsReady(roll),
              spawn |-> <<>>,
              ev    |-> ev1]

requestUserPosition(i, r, s, roll, j, cb, ev) ==
    IF r.foundPosition # Undefined
    THEN onPositionFound(i, r, r.foundPosition[1], s, roll, j, cb, ev)
    ELSE [req   |-> [r EXCEPT !.fetchPending = @ + 1, !.nFetch = @ + 1],
          s     |-> s,
          tilt  |-> tilt,
          spawn |-> <<>>,
          ev    |-> [ev EXCEPT !.fetch = @ + 1]]

\* (variant: onFail invoked without checking that it was given)
reportFailure_unchecked(r, err, ev) ==
    [req |-> [r EXCEPT !.nFail = @ + 1],
     ev  |-> [ev EXCEPT !.onFail = @ + 1, !.failArg = err]]

\* the error callback given to getCurrentPosition: if(onFail) onFail(err)
reportFailure(r, err, ev) ==
    IF r.hasOnFail
    THEN [req |-> [r EXCEPT !.nFail = @ + 1],
          ev  |-> [ev EXCEPT !.onFail = @ + 1, !.failArg = err]]
    ELSE [req |-> r, ev |-> ev]

\* a handler that creates no request
Only(req, s, t, ev) == [req |-> req, s |-> s, tilt |-> t, spawn |-> <<>>, ev |-> ev]

\* a handler's effect on request i, applied to the state
Apply(i, eff) ==
    /\ eff.spawn # <<>> => Len(requests) < MaxReq
    /\ requests' = [requests EXCEPT ![i] = eff.req] \o eff.spawn
    /\ isSearching' = eff.s
    /\ tilt' = eff.tilt
    /\ lastEvent' = eff.ev


----------------------------------------------------------------------------
Init ==
    /\ now = StartTime
    /\ tracking = TRUE   \* init() throws without a DeviceTracking component
    /\ cam = TRUE        \* getOrb never reads cam
    /\ specs \in BOOLEAN
    /\ frontCameraFlip = Undefined
    /\ isSearching = [k \in OrbKinds |-> FALSE]
    /\ locationService = Undefined
    /\ headingHandlers = 0
    /\ foundHeading = Undefined
    /\ foundHeadingTime = Undefined
    /\ tilt = Undefined
    /\ requests = <<>>
    /\ lastEvent = NoEvent

\* script.getSun / script.getMoon: getOrb(orbType, onSuccess, onFail), up to its return
GetOrb(orbType, onSuccessIsFunction, hasOnFail) ==
    LET i == Len(requests) + 1
        ev == Event("getOrb", i, orbType, <<onSuccessIsFunction, hasOnFail>>)
    IN
    IF usageError(onSuccessIsFunction, orbType)
    THEN \* throw(title + noCallback)
         /\ lastEvent' = [ev EXCEPT !.req = 0, !.threw = title \o noCallback]
         /\ UNCHANGED <<now, trackerVars>>
    ELSE IF orbIsSearching(orbType)
    THEN \* only 1 search at a time
         /\ lastEvent' = [ev EXCEPT !.req = 0,
                                    !.onFail = IF hasOnFail THEN 1 ELSE 0,
                                    !.failArg = IF hasOnFail THEN alreadyActive ELSE ""]
         /\ UNCHANGED <<now, trackerVars>>
    ELSE /\ Len(requests) < MaxReq
         /\ locationService' = IF serviceMissing THEN <<"service">> ELSE locationService
         /\ headingHandlers' = IF serviceMissing THEN headingHandlers + 1 ELSE headingHandlers
         /\ LET r == NewRequest(orbType, hasOnFail)
                s == setSearching(isSearching, orbType)
                Accept(eff) == /\ eff.spawn # <<>> => Len(requests) + 1 < MaxReq
                               /\ requests' = Append(requests, eff.req) \o eff.spawn
                               /\ isSearching' = eff.s
                               /\ tilt' = eff.tilt
                               /\ lastEvent' = eff.ev
            IN  IF lensStarted
                THEN \E roll \in RollValues, cb \in callbacksWhen(FALSE) :
                         Accept(requestUserPosition(i, r, s, roll, i + 1, cb, ev))
                ELSE Accept(Only([r EXCEPT !.initialWaitEvent = TRUE], s, tilt, ev))
         /\ UNCHANGED <<now, tracking, cam, specs, frontCameraFlip, foundHeading, foundHeadingTime>>

\* the UpdateEvent callback bound to initialWaitEvent of request i
InitialWaitUpdate(i) ==
    /\ i \in 1..Len(requests)
    /\ requests[i].initialWaitEvent
    /\ LET r == requests[i]
           ev == Event("initialWaitUpdate", i, r.orbType, <<>>)
       IN  IF lensStarted
           THEN \E roll \in RollValues, cb \in callbacksWhen(r.foundPosition # Undefined) :
                    Apply(i, requestUserPosition(i, removeInitialWaitEvent(r),
                                                 isSearching, roll, Len(requests) + 1, cb, ev))
           ELSE Apply(i, Only(r, isSearching, tilt, ev))
    /\ UNCHANGED <<now, tracking, cam, specs, frontCameraFlip, locationService,
                   headingHandlers, foundHeading, foundHeadingTime>>

\* the location provider delivers the fix p of request i's getCurrentPosition call
PositionFound(i, p, roll, cb) ==
    /\ i \in 1..Len(requests)
    /\ requests[i].fetchPending > 0
    /\ LET r == [requests[i] EXCEPT !.fetchPending = @ - 1]
           ev == Event("onPositionFound", i, r.orbType, <<p>>)
       IN  Apply(i, onPositionFound(i, r, p, isSearching, roll, Len(requests) + 1, cb, ev))
    /\ UNCHANGED <<now, tracking, cam, specs, frontCameraFlip, locationService,
                   headingHandlers, foundHeading, foundHeadingTime>>

\* the location provider reports the failure err of request i's getCurrentPosition call
PositionFailed(i, err) ==
    /\ i \in 1..Len(requests)
    /\ requests[i].fetchPending > 0
    /\ LET r == [requests[i] EXCEPT !.fetchPending = @ - 1]
           ev == Event("onPositionError", i, r.orbType, <<err>>)
           f == reportFailure(r, err, ev)
       IN  Apply(i, Only(f.req, isSearching, tilt, f.ev))
    /\ UNCHANGED <<now, tracking, cam, specs, frontCameraFlip, locationService,
                   headingHandlers, foundHeading, foundHeadingTime>>

\* the UpdateEvent callback bound to awaitingHeading of request i
AwaitingHeadingUpdate(i, roll, cb) ==
    /\ i \in 1..Len(requests)
    /\ requests[i].awaitingHeading
    /\ LET r == requests[i]
           ev == [Event("awaitingHeadingUpdate", i, r.orbType, <<>>)
                      EXCEPT !.checked = TRUE, !.roll = <<roll>>, !.measured = tiltMeasured]
       IN  IF isReady(roll)
           THEN Apply(i, interpretTrackingData(i, removeAwaitingHeading(r),
                                               isSearching, tiltAfterIsReady(roll),
                                               Len(requests) + 1, cb, ev))
           ELSE Apply(i, Only(r, isSearching, tiltAfterIsReady(roll), ev))
    /\ UNCHANGED <<now, tracking, cam, specs, frontCameraFlip, locationService,
                   headingHandlers, foundHeading, foundHeadingTime>>

\* (variant: a request-scoped subscription, listening only while a kind is searching)
headingSubscribed_whileSearching ==
    headingHandlers > 0 /\ \E k \in OrbKinds : isSearching[k]

\* a handler has been added to locationService.onNorthAlignedOrientationUpdate
headingSubscribed == headingHandlers > 0

\* the platform has the north aligned heading h: it runs the handlers added to
\* locationService.onNorthAlignedOrientationUpdate, of which there are none before
\* the service is created
HeadingUpdate(h) ==
    /\ IF headingSubscribed
       THEN /\ foundHeading' = <<h>>
            /\ foundHeadingTime' = <<getTime>>
       ELSE UNCHANGED <<foundHeading, foundHeadingTime>>
    /\ lastEvent' = HeadingEvent(h)
    /\ UNCHANGED <<now, tracking, cam, specs, frontCameraFlip, isSearching, locationService,
                   headingHandlers, tilt, requests>>

\* CameraBackEvent / CameraFrontEvent, bound by init() when not on Spectacles
CameraBack ==
    /\ ~specs
    /\ frontCameraFlip' = <<FALSE>>
    /\ lastEvent' = EnvEvent
    /\ UNCHANGED <<now, tracking, cam, specs, isSearching, locationService, headingHandlers,
                   foundHeading, foundHeadingTime, tilt, requests>>

CameraFront ==
    /\ ~specs
    /\ frontCameraFlip' = <<TRUE>>
    /\ lastEvent' = EnvEvent
    /\ UNCHANGED <<now, tracking, cam, specs, isSearching, locationService, headingHandlers,
                   foundHeading, foundHeadingTime, tilt, requests>>

\* time passes: getTime() grows by d ticks
AdvanceClock(d) ==
    /\ now + d <= MaxTime
    /\ now' = now + d
    /\ lastEvent' = EnvEvent
    /\ UNCHANGED trackerVars

Next ==
    \/ \E k \in OrbKinds, f \in BOOLEAN, g \in BOOLEAN : GetOrb(k, f, g)
    \/ \E i \in 1..MaxReq : InitialWaitUpdate(i)
    \/ \E i \in 1..MaxReq, p \in Fixes, a \in RollValues :
           \E cb \in callbacksWhen(isReady(a)) : PositionFound(i, p, a, cb)
    \/ \E i \in 1..MaxReq, e \in ProviderErrors : PositionFailed(i, e)
    \/ \E i \in 1..MaxReq, a \in RollValues :
           \E cb \in callbacksWhen(isReady(a)) : AwaitingHeadingUpdate(i, a, cb)
    \/ \E h \in HeadingValues : HeadingUpdate(h)
    \/ CameraBack
    \/ CameraFront
    \/ \E d \in 1..MaxTime : AdvanceClock(d)

Spec == Init /\ [][Next]_vars


----------------------------------------------------------------------------
\* Properties

Reqs == 1..Len(requests)

\* requests of kind k that were accepted and whose onSuccess has not been invoked
InFlight(k) == {i \in Reqs : requests[i].orbType = k /\ requests[i].nSuccess = 0}

\* request i's getCurrentPosition call ended with the error callback
FetchFailed(i) ==
    /\ requests[i].nFetch > 0
    /\ requests[i].fetchPending = 0
    /\ requests[i].foundPosition = Undefined

\* C1: for each body kind, at most one accepted request is between its acceptance
\* and its onSuccess, and the kind's isSearching flag is set exactly while there is one.
C1_AtMostOneInFlight ==
    \A k \in OrbKinds :
        /\ Cardinality(InFlight(k)) <= 1
        /\ isSearching[k] <=> InFlight(k) # {}

\* a second request of a kind was accepted after the first one resolved, and is in flight
C1_Witness ==
    \E i, j \in Reqs :
        /\ i < j
        /\ requests[i].orbType = requests[j].orbType
        /\ requests[i].nSuccess = 1
        /\ requests[j].nSuccess = 0
        /\ isSearching[requests[j].orbType]

\* C2: after every terminal outcome of a request (onSuccess invoked, or a location-fetch
\* failure reported for it) the kind's isSearching flag is clear, unless onSuccess itself
\* started the next request of the kind.
C2_TerminalOutcomeReturnsToIdle ==
    ((lastEvent.onSuccess > 0 /\ lastEvent.spawned = 0) \/ lastEvent.op = "onPositionError")
        => ~isSearching[lastEvent.orbType]

\* C3: getCurrentPosition is called at most once over all requests.
C3_FetchAtMostOnce == fetchCount <= 1

\* C4: a getSun/getMoon call with a valid onSuccess made while the kind is searching
\* invokes onFail (when given) once with the contention message, invokes no onSuccess,
\* throws nothing, issues no fetch and leaves the tracker's state unchanged.
C4_RejectedWhileSearching ==
    [][ (/\ lastEvent'.op = "getOrb"
         /\ lastEvent'.input[1]
         /\ isSearching[lastEvent'.orbType])
        => /\ lastEvent'.onFail = (IF lastEvent'.input[2] THEN 1 ELSE 0)
           /\ lastEvent'.failArg = (IF lastEvent'.input[2]
                                    THEN "Aborted because a search is already active."
                                    ELSE "")
           /\ lastEvent'.onSuccess = 0
           /\ lastEvent'.threw = ""
           /\ lastEvent'.fetch = 0
           /\ UNCHANGED trackerVars ]_vars

\* a call was rejected with the contention message while the first request of the
\* kind was waiting for its fix
C4_Witness ==
    /\ lastEvent.op = "getOrb"
    /\ lastEvent.onFail = 1
    /\ lastEvent.failArg = "Aborted because a search is already active."
    /\ \E i \in Reqs : /\ requests[i].orbType = lastEvent.orbType
                       /\ requests[i].fetchPending > 0

\* C5: whenever onSuccess is invoked, a heading sample exists, the heading consumed
\* is the stored sample, and the sample is younger than headingLifetime.
C5_FreshHeadingAtResolution ==
    lastEvent.onSuccess > 0
        => /\ foundHeading # Undefined
           /\ lastEvent.used.heading = foundHeading
           /\ lastEvent.used.headingTime = foundHeadingTime
           /\ now - foundHeadingTime[1] < headingLifetime

\* a request resolved with a sample captured two ticks (0.10 s) earlier
C5_Witness ==
    /\ lastEvent.onSuccess > 0
    /\ now - foundHeadingTime[1] = headingLifetime - 1

\* C6: a readiness check made while a heading sample exists, is younger than
\* headingLifetime and the tilt is within the threshold resolves the request.
C6_ReadyCheckResolves ==
    (/\ lastEvent.checked
     /\ foundHeading # Undefined
     /\ now - foundHeadingTime[1] < headingLifetime
     /\ Abs(lastEvent.roll[1]) <= uprightThreshold)
        => lastEvent.onSuccess = 1

\* C7: a readiness check that finds the device tilted over the threshold invokes no
\* callback, keeps the kind searching and keeps the per-frame poller registered; and
\* every resolution was admitted by a check that measured a tilt within the threshold.
C7_TiltGateBlocks ==
    /\ (lastEvent.checked /\ Abs(lastEvent.roll[1]) > uprightThreshold)
        => /\ lastEvent.onSuccess = 0
           /\ lastEvent.onFail = 0
           /\ lastEvent.threw = ""
           /\ isSearching[lastEvent.orbType]
           /\ requests[lastEvent.req].awaitingHeading
    /\ lastEvent.onSuccess > 0
        => /\ lastEvent.measured
           /\ tilt = lastEvent.roll
           /\ Abs(tilt[1]) <= uprightThreshold

\* a check found a fresh heading and was blocked by the tilt alone
C7_Witness ==
    /\ lastEvent.checked
    /\ lastEvent.measured
    /\ Abs(lastEvent.roll[1]) > uprightThreshold
    /\ requests[lastEvent.req].awaitingHeading


\* C8: while uptime is at most initialWait, no getCurrentPosition call has been made
\* and no heading handler has been subscribed; a request accepted in that interval is
\* held by its per-frame poller, which issues the fetch on the first tick after it.
C8_NoProviderRequestInWarmUp ==
    /\ now <= initialWait => (fetchCount = 0 /\ headingHandlers = 0)
    /\ now <= initialWait => \A i \in Reqs : requests[i].initialWaitEvent
    /\ lastEvent.op = "initialWaitUpdate"
        => IF now > initialWait
           THEN lastEvent.fetch = 1 /\ ~requests[lastEvent.req].initialWaitEvent
           ELSE lastEvent.fetch = 0 /\ requests[lastEvent.req].initialWaitEvent

\* C8 (amended): while uptime is at most initialWait, no getCurrentPosition call has
\* been made, although the heading handler is subscribed as soon as a request has been
\* accepted; a request accepted in that interval is held by its per-frame poller, has
\* issued no fetch, and the poller issues the fetch on the first tick after the interval.
C8_NoFetchInWarmUp ==
    /\ now <= initialWait => fetchCount = 0
    /\ now <= initialWait => \A i \in Reqs : requests[i].initialWaitEvent
    /\ requests # <<>> => headingHandlers = 1
    /\ \A i \in Reqs : requests[i].initialWaitEvent => requests[i].nFetch = 0
    /\ lastEvent.op = "initialWaitUpdate"
        => IF now > initialWait
           THEN lastEvent.fetch = 1 /\ ~requests[lastEvent.req].initialWaitEvent
           ELSE lastEvent.fetch = 0 /\ requests[lastEvent.req].initialWaitEvent

\* a held request issued its fetch on a tick after the warm-up interval
C8_Witness ==
    /\ lastEvent.op = "initialWaitUpdate"
    /\ lastEvent.fetch = 1
    /\ now > initialWait
    /\ requests[lastEvent.req].fetchPending = 1

\* C9: a reported location-fetch failure invokes the request's onFail (when given)
\* once with the provider's error value and nothing else; a request whose fetch failed
\* has had no onSuccess, exactly one fetch, and has no poller registered.
C9_FetchFailureReported ==
    /\ lastEvent.op = "onPositionError"
        => /\ lastEvent.onFail = (IF requests[lastEvent.req].hasOnFail THEN 1 ELSE 0)
           /\ lastEvent.failArg = (IF requests[lastEvent.req].hasOnFail
                                   THEN lastEvent.input[1] ELSE "")
           /\ lastEvent.onSuccess = 0
           /\ lastEvent.fetch = 0
           /\ lastEvent.threw = ""
    /\ \A i \in Reqs :
        FetchFailed(i)
            => /\ requests[i].nSuccess = 0
               /\ requests[i].nFetch = 1
               /\ requests[i].nFail = (IF requests[i].hasOnFail THEN 1 ELSE 0)
               /\ ~requests[i].initialWaitEvent
               /\ ~requests[i].awaitingHeading

\* the provider's error reached the onFail of the request
C9_Witness ==
    /\ lastEvent.op = "onPositionError"
    /\ lastEvent.onFail = 1
    /\ lastEvent.failArg = "errTimeout"
    /\ FetchFailed(lastEvent.req)

\* C10: a getSun/getMoon call whose onSuccess is not a function throws the usage
\* error, invokes no callback, issues no fetch and leaves the tracker's state unchanged,
\* also when the kind is searching.
C10_UsageErrorChangesNothing ==
    [][ (lastEvent'.op = "getOrb" /\ ~lastEvent'.input[1])
        => /\ lastEvent'.threw = "[SunMoonTracker] No onSuccess callback given!"
           /\ lastEvent'.onFail = 0
           /\ lastEvent'.onSuccess = 0
           /\ lastEvent'.fetch = 0
           /\ UNCHANGED trackerVars ]_vars

\* the usage error was thrown while the kind was searching and an onFail was given
C10_Witness ==
    /\ lastEvent.op = "getOrb"
    /\ lastEvent.threw # ""
    /\ lastEvent.input[2]
    /\ lastEvent.onFail = 0
    /\ isSearching[lastEvent.orbType]

\* C15: the azimuth, altitude and distance of a result are the solver's values for the
\* result's kind, date and fix, whatever the heading, tilt, camera facing, hardware
\* and flags are: two results for the same kind, date and fix are identical.
C15_EphemerisOfDateAndFix ==
    lastEvent.onSuccess > 0
        => LET info == lastEvent.info
               value(of) == [of |-> of, orbType |-> info.name, date |-> info.date,
                             lat |-> <<info.fix, "latitude">>,
                             long |-> <<info.fix, "longitude">>]
           IN  /\ info.azimuth = value("azimuth")
               /\ info.altitude = value("altitude")
               /\ info.distance = value("distance")
               /\ info.fix = requests[lastEvent.req].foundPosition[1]
               /\ info.date = now

\* a request resolved on the front camera with a tilted device
C15_Witness ==
    /\ lastEvent.onSuccess > 0
    /\ frontCameraFlip = <<TRUE>>
    /\ tilt = <<uprightThreshold>>
    /\ lastEvent.info.azimuth.of = "azimuth"

\* C16: when onSuccess is invoked the kind's isSearching flag is already clear; a
\* getSun/getMoon call for the same kind made from inside onSuccess is accepted and
\* starts the next request; and the flag is clear after an onSuccess that returned or
\* raised.
C16_ReleasedBeforeOnSuccess ==
    lastEvent.onSuccess > 0
        => /\ lastEvent.searchingAtSuccess = <<FALSE>>
           /\ lastEvent.callback = "getOrb"
                => /\ lastEvent.onFail = 0
                   /\ lastEvent.spawned = Len(requests)
                   /\ lastEvent.spawned > lastEvent.req
                   /\ requests[lastEvent.spawned].orbType = lastEvent.orbType
                   /\ requests[lastEvent.spawned].nFetch = 1
                   /\ isSearching[lastEvent.orbType]
           /\ lastEvent.callback \in {"returns", "throws"}
                => ~isSearching[lastEvent.orbType]

\* a getSun/getMoon call made from inside onSuccess was accepted and issued its fetch
C16_Witness ==
    /\ lastEvent.onSuccess = 1
    /\ lastEvent.callback = "getOrb"
    /\ lastEvent.spawned = 2
    /\ lastEvent.fetch = 1
    /\ requests[2].fetchPending = 1

\* C17: every heading update overwrites the heading sample with (heading, now),
\* also when no request has ever been made.
C17_EveryHeadingUpdateStored ==
    [][ lastEvent'.op = "headingUpdate"
        => /\ foundHeading' = lastEvent'.input
           /\ foundHeadingTime' = <<now>> ]_vars

\* C17 (amended): there is no heading sample until a request has been accepted; from
\* the first accepted request on, every heading update overwrites the sample with
\* (heading, now) whatever the state of the requests is, and nothing else changes it.
C17_HeadingUpdateStoredOnceSubscribed ==
    [][ /\ (lastEvent'.op = "headingUpdate" /\ requests # <<>>)
            => /\ foundHeading' = lastEvent'.input
               /\ foundHeadingTime' = <<now>>
        /\ (lastEvent'.op = "headingUpdate" /\ requests = <<>>)
            => UNCHANGED <<foundHeading, foundHeadingTime>>
        /\ lastEvent'.op # "headingUpdate"
            => UNCHANGED <<foundHeading, foundHeadingTime>>
        /\ requests' = <<>> => foundHeading' = Undefined ]_vars

\* a heading update was stored after one request had resolved and the fetch of
\* another had failed
C17_Witness ==
    /\ lastEvent.op = "headingUpdate"
    /\ foundHeading = lastEvent.input
    /\ foundHeadingTime = <<now>>
    /\ \E i \in Reqs : requests[i].nSuccess = 1 /\ ~isSearching[requests[i].orbType]
    /\ \E i \in Reqs : FetchFailed(i)

\* C18: the location service is created by the first accepted request and never again,
\* and exactly one heading handler is added to it.
C18_ServiceCreatedOnce ==
    /\ headingHandlers <= 1
    /\ requests = <<>> => (locationService = Undefined /\ headingHandlers = 0)
    /\ requests # <<>> => (locationService = <<"service">> /\ headingHandlers = 1)

\* requests of both kinds have been accepted
C18_Witness ==
    /\ Len(requests) = 2
    /\ requests[1].orbType # requests[2].orbType
    /\ headingHandlers = 1
    /\ lastEvent.op = "getOrb"
    /\ lastEvent.req = 2

\* C19: a handler working for one kind leaves the isSearching flag of the other kind
\* unchanged; a valid call is accepted when its own kind is idle and rejected when its
\* own kind is searching, whatever the other kind is doing; and a result carries the name
\* and the solver values of the kind of its own request.
C19_KindsIndependent ==
    [][ /\ \A k \in OrbKinds :
              lastEvent'.orbType = k
                  => \A o \in OrbKinds \ {k} : isSearching'[o] = isSearching[o]
        /\ (lastEvent'.op = "getOrb" /\ lastEvent'.input[1])
              => IF isSearching[lastEvent'.orbType]
                 THEN lastEvent'.req = 0 /\ UNCHANGED requests
                 ELSE /\ lastEvent'.req = Len(requests) + 1
                      /\ lastEvent'.onFail = 0
                      /\ Len(requests') = Len(requests) + 1
        /\ lastEvent'.onSuccess > 0
              => /\ lastEvent'.onSuccess = 1
                 /\ lastEvent'.info.name = requests[lastEvent'.req].orbType
                 /\ lastEvent'.info.name = lastEvent'.orbType
                 /\ lastEvent'.info.azimuth.orbType = lastEvent'.info.name ]_vars

\* a Sun request resolved while a Moon request, accepted while the Sun was searching,
\* is still in flight
C19_Witness ==
    /\ lastEvent.onSuccess = 1
    /\ lastEvent.orbType = "Sun"
    /\ lastEvent.info.name = "Sun"
    /\ ~isSearching["Sun"]
    /\ isSearching["Moon"]
    /\ InFlight("Moon") = {2}

\* C20: the heading of a result is the stored heading, negated on the front camera and
\* turned by 180 degrees on Spectacles, minus (75/2) * tilt degrees, where tilt is the
\* angle measured by the readiness check that admitted the resolution; |tilt| <= 0.7
\* and the offset is within 26.25 degrees.
C20_TiltCompensation ==
    lastEvent.onSuccess > 0
        => LET h0 == lastEvent.used.heading[1]
               h1 == IF lastEvent.used.frontCameraFlip = <<TRUE>> THEN -h0 ELSE h0
               h2 == IF specs THEN h1 + 18000 ELSE h1
               measured == lastEvent.roll[1]
               offset == 375 * measured
           IN  /\ lastEvent.measured
               /\ lastEvent.used.tilt = <<measured>>
               /\ Abs(measured) <= 7
               /\ -2625 <= offset /\ offset <= 2625
               /\ lastEvent.info.userHeading = h2 - offset

\* a request held back by a tilt of -0.8 resolved at a tilt of 0.7: heading 90 degrees
\* reported as 63.75 degrees
C20_Witness ==
    /\ lastEvent.op = "awaitingHeadingUpdate"
    /\ lastEvent.onSuccess = 1
    /\ lastEvent.roll = <<7>>
    /\ ~specs
    /\ frontCameraFlip # <<TRUE>>
    /\ lastEvent.used.heading = <<9000>>
    /\ lastEvent.info.userHeading = 6375

\* C21: the onSuccess of an accepted request is invoked at most once, its onFail at
\* most once, and never both, given that the provider answers each getCurrentPosition
\* call with one callback; no handler invokes onSuccess twice or both callbacks.
C21_ResolvesAtMostOnce ==
    /\ \A i \in Reqs :
          /\ requests[i].nSuccess <= 1
          /\ requests[i].nFail <= 1
          /\ ~(requests[i].nSuccess > 0 /\ requests[i].nFail > 0)
          /\ requests[i].nFetch <= 1
          /\ requests[i].fetchPending <= 1
    /\ lastEvent.onSuccess <= 1
    /\ ~(lastEvent.onSuccess > 0 /\ lastEvent.onFail > 0)

\* the readiness poller resolved one request after the fetch of another had failed and
\* been reported, and frames keep coming
C21_Witness ==
    /\ lastEvent.op = "awaitingHeadingUpdate"
    /\ lastEvent.onSuccess = 1
    /\ requests[lastEvent.req].nSuccess = 1
    /\ \E j \in Reqs : requests[j].nFail = 1 /\ requests[j].nSuccess = 0

\* C22: a request has at most one per-frame poller bound: the warm-up poller until the
\* first frame after the warm-up, which removes it and issues the fetch, then the
\* readiness poller from a fix that found the tracker not ready until the first frame
\* that finds it ready, which removes it and resolves; a resolved or failed request
\* has none.
C22_PollersDoNotLeak ==
    /\ \A i \in Reqs :
          /\ ~(requests[i].initialWaitEvent /\ requests[i].awaitingHeading)
          /\ requests[i].initialWaitEvent => requests[i].nFetch = 0
          /\ requests[i].awaitingHeading
                => requests[i].foundPosition # Undefined /\ requests[i].nSuccess = 0
          /\ requests[i].nSuccess > 0
                => ~requests[i].initialWaitEvent /\ ~requests[i].awaitingHeading
          /\ FetchFailed(i)
                => ~requests[i].initialWaitEvent /\ ~requests[i].awaitingHeading
    /\ lastEvent.op = "initialWaitUpdate"
          => (requests[lastEvent.req].initialWaitEvent <=> now <= initialWait)
    /\ lastEvent.op \in {"onPositionFound", "awaitingHeadingUpdate"}
          => (requests[lastEvent.req].awaitingHeading <=> lastEvent.onSuccess = 0)

\* a request went through both pollers: held by the warm-up poller, then by the
\* readiness poller, which has resolved it and is gone
C22_Witness ==
    /\ lastEvent.op = "awaitingHeadingUpdate"
    /\ lastEvent.onSuccess = 1
    /\ lastEvent.req = 1
    /\ ~requests[1].awaitingHeading
    /\ ~requests[1].initialWaitEvent
    /\ \E j \in Reqs : requests[j].awaitingHeading

\* C23: on Spectacles the camera facing is never set: the heading is turned by 180
\* degrees, not negated, and the azimuth given to orbDirection is not mirrored; elsewhere
\* the heading is never turned, and it is negated exactly when the azimuth is mirrored,
\* which is exactly when the front camera is active.
C23_PlatformCorrections ==
    /\ specs => frontCameraFlip = Undefined
    /\ lastEvent.onSuccess > 0
          => LET h0 == lastEvent.used.heading[1]
                 adjusted == lastEvent.info.userHeading + 375 * lastEvent.used.tilt[1]
                 front == lastEvent.used.frontCameraFlip = <<TRUE>>
                 mirrored == lastEvent.used.orbAzimuth.of = "180 - azimuth"
             IN  /\ lastEvent.used.frontCameraFlip = frontCameraFlip
                 /\ lastEvent.used.orbAzimuth.of \in {"azimuth", "180 - azimuth"}
                 /\ specs => (~front /\ ~mirrored /\ adjusted = h0 + 18000)
                 /\ ~specs => (mirrored <=> front)
                 /\ ~specs => adjusted = (IF front THEN -h0 ELSE h0)

\* a request resolved on the front camera: heading 90 degrees negated, azimuth mirrored
C23_Witness ==
    /\ lastEvent.onSuccess = 1
    /\ ~specs
    /\ lastEvent.used.frontCameraFlip = <<TRUE>>
    /\ lastEvent.used.heading = <<9000>>
    /\ lastEvent.used.tilt = <<0>>
    /\ lastEvent.info.userHeading = -9000
    /\ lastEvent.used.orbAzimuth.of = "180 - azimuth"

----------------------------------------------------------------------------
\* worldToScreen, the screen projection helper
\*
\* Vectors are <<x, y, z>> with integer components.  A pose of the tracking
\* transform is an origin and a rotation; a rotation is the triple of the world
\* space images <<right, up, forward>> of the local x, y and z axes.  Screen
\* coordinates are in tenths (the camera's 0-1 range is 0..10).

MaxOrigin == 1    \* tracking origins <<c, 2c, -c>> for c up to here

dot(a, b) == a[1] * b[1] + a[2] * b[2] + a[3] * b[3]

cross(a, b) == <<a[2] * b[3] - a[3] * b[2],
                 a[3] * b[1] - a[1] * b[3],
                 a[1] * b[2] - a[2] * b[1]>>

add(a, b) == <<a[1] + b[1], a[2] + b[2], a[3] + b[3]>>

sub(a, b) == <<a[1] - b[1], a[2] - b[2], a[3] - b[3]>>

Zero3 == <<0, 0, 0>>
Axes == {<<1, 0, 0>>, <<-1, 0, 0>>, <<0, 1, 0>>, <<0, -1, 0>>, <<0, 0, 1>>, <<0, 0, -1>>}

\* the 24 rotations that map the axes onto axes (right-handed: right x up = forward)
Rotations == {rot \in Axes \X Axes \X Axes : cross(rot[1], rot[2]) = rot[3]}

Origins == {<<c, 2 * c, -c>> : c \in 0..MaxOrigin}

Poses == [origin : Origins, rot : Rotations]

\* world positions asked about: the origin and the points one unit from it along an axis
Offsets == Axes \cup {Zero3}

\* what cam.worldSpaceToScreenSpace may answer (0-1, inversed y-axis), in tenths
ScreenPoints == {<<5, 5>>, <<0, 10>>, <<12, 3>>}

\* tracking.getTransform().forward: the local +z axis in world space
forward(pose) == pose.rot[3]

\* tracking.getTransform().getInvertedWorldTransform().multiplyPoint(p):
\* p in the frame of the tracking transform (of unit scale; a positive scale
\* changes no sign)
multiplyPointInverted(pose, p) ==
    LET v == sub(p, pose.origin)
    IN  <<dot(pose.rot[1], v), dot(pose.rot[2], v), dot(pose.rot[3], v)>>

\* (variant: the camera check dropped)
noCamera_unchecked == FALSE

\* if(!cam) return;
noCamera == ~cam

\* (variant: the depth sign read the way the comment of line 433 words it)
isInFront_positive(zPos) == zPos[3] > 0

\* const isInFront = zPos.z < 0
isInFront(zPos) == zPos[3] < 0

\* remap to (-1 - 1), in tenths
screenRemap(position) == <<(position[1] - 5) * 2, (10 - position[2] - 5) * 2>>

\* worldToScreen(worldPosition) under the tracking pose, with projected the answer
\* of cam.worldSpaceToScreenSpace: what it returns, whether it raised (a method
\* called on null or undefined is a TypeError) and the collaborators it called
worldToScreen(pose, worldPosition, projected) ==
    IF noCamera
    THEN [result |-> Undefined, threw |-> FALSE, reads |-> {}]
    ELSE IF ~tracking
    THEN [result |-> Undefined, threw |-> TRUE, reads |-> {}]
    ELSE IF ~cam
    THEN [result |-> Undefined, threw |-> TRUE, reads |-> {"getInvertedWorldTransform"}]
    ELSE [result |-> <<[position |-> screenRemap(projected),
                        isInFront |-> isInFront(multiplyPointInverted(pose, worldPosition))]>>,
          threw |-> FALSE,
          reads |-> {"getInvertedWorldTransform", "worldSpaceToScreenSpace"}]

\* the script constructed in any scene: with or without a DeviceTracking component,
\* whose scene object has a Camera component or not
InitScreen ==
    /\ now = StartTime
    /\ tracking \in BOOLEAN
    /\ cam \in BOOLEAN
    /\ tracking \/ ~cam
    /\ specs \in BOOLEAN
    /\ frontCameraFlip = Undefined
    /\ isSearching = [k \in OrbKinds |-> FALSE]
    /\ locationService = Undefined
    /\ headingHandlers = 0
    /\ foundHeading = Undefined
    /\ foundHeadingTime = Undefined
    /\ tilt = Undefined
    /\ requests = <<>>
    /\ lastEvent = NoEvent

\* script.worldToScreen(worldPosition), called while the tracking transform is at pose
WorldToScreen(pose, worldPosition, projected) ==
    /\ lastEvent' = [op |-> "worldToScreen",
                     pose |-> pose,
                     worldPosition |-> worldPosition,
                     out |-> worldToScreen(pose, worldPosition, projected)]
    /\ UNCHANGED <<now, trackerVars>>

NextScreen ==
    \E pose \in Poses, d \in Offsets, projected \in ScreenPoints :
        WorldToScreen(pose, add(pose.origin, d), projected)

SpecScreen == InitScreen /\ [][NextScreen]_vars

\* C11: worldToScreen called when no camera is configured returns undefined for every
\* world position, raises nothing, calls neither the transform nor the projection and
\* changes no tracker state.
C11_NoCameraReturnsUndefined ==
    [][ (lastEvent'.op = "worldToScreen" /\ ~cam)
        => /\ lastEvent'.out.result = Undefined
           /\ ~lastEvent'.out.threw
           /\ lastEvent'.out.reads = {}
           /\ UNCHANGED trackerVars ]_vars

\* worldToScreen was called with a DeviceTracking component whose object has no camera
C11_Witness ==
    /\ lastEvent.op = "worldToScreen"
    /\ tracking
    /\ ~cam
    /\ lastEvent.out.result = Undefined

----------------------------------------------------------------------------
\* getSunPosition and getMoonPosition, the ephemeris solvers
\*
\* The solvers compute in double precision.  The model computes their last steps
\* (radToDeg, + 180, % 360, the distances) exactly, in decimal fixed point: a
\* magnitude is a sequence of limbs of four decimal digits, least significant
\* first, and a number is [neg, mag].  An exact product differs from the double
\* the script computes by less than one part in 10^15.  Radians are counted in
\* units of 10^-15, degrees in units of 10^-25, so that radToDeg is one product.
\* The results of Math.atan2, Math.asin and Math.cos are inputs of the model.

CosSteps == 4     \* Math.cos(M) takes the values -1 + 2k/CosSteps

Base == 10 ^ 4    \* a limb holds four decimal digits

limb(a, k) == IF k <= Len(a) THEN a[k] ELSE 0

RECURSIVE carry(_, _)
carry(a, c) ==
    IF a = <<>>
    THEN IF c = 0 THEN <<>> ELSE <<c % Base>> \o carry(<<>>, c \div Base)
    ELSE <<(a[1] + c) % Base>> \o carry(Tail(a), (a[1] + c) \div Base)

addMag(a, b) ==
    LET n == IF Len(a) > Len(b) THEN Len(a) ELSE Len(b)
    IN  carry([k \in 1..n |-> limb(a, k) + limb(b, k)], 0)

RECURSIVE column(_, _, _, _)
\* the sum of a[i] * b[k + 1 - i] over i = 1..n
column(a, b, k, n) ==
    IF n = 0 THEN 0 ELSE limb(a, n) * limb(b, k + 1 - n) + column(a, b, k, n - 1)

mulMag(a, b) ==
    carry([k \in 1..(Len(a) + Len(b) - 1) |->
               column(a, [j \in 1..k |-> limb(b, j)], k, IF k < Len(a) THEN k ELSE Len(a))], 0)

RECURSIVE cmpFrom(_, _, _)
cmpFrom(a, b, k) ==
    IF k = 0 THEN 0
    ELSE IF limb(a, k) < limb(b, k) THEN -1
    ELSE IF limb(a, k) > limb(b, k) THEN 1
    ELSE cmpFrom(a, b, k - 1)

\* -1, 0 or 1 as a is less than, equal to or greater than b
cmpMag(a, b) == cmpFrom(a, b, IF Len(a) > Len(b) THEN Len(a) ELSE Len(b))

RECURSIVE subFrom(_, _, _, _)
subFrom(a, b, k, borrow) ==
    IF k > Len(a) THEN <<>>
    ELSE LET d == limb(a, k) - limb(b, k) - borrow
         IN  IF d < 0 THEN <<d + Base>> \o subFrom(a, b, k + 1, 1)
             ELSE <<d>> \o subFrom(a, b, k + 1, 0)

\* a - b for magnitudes a >= b
subMag(a, b) == subFrom(a, b, 1, 0)

\* the magnitude of an integer below Base^3
toMag(n) == <<n % Base, (n \div Base) % Base, n \div (Base * Base)>>

Num(neg, mag) == [neg |-> neg, mag |-> mag]

isNegative(x) == x.neg /\ cmpMag(x.mag, <<0>>) > 0

\* x + y
plus(x, y) ==
    IF x.neg = y.neg THEN Num(x.neg, addMag(x.mag, y.mag))
    ELSE IF cmpMag(x.mag, y.mag) >= 0 THEN Num(x.neg, subMag(x.mag, y.mag))
    ELSE Num(y.neg, subMag(y.mag, x.mag))

\* x < y
less(x, y) ==
    LET d == plus(x, Num(~y.neg, y.mag)) IN isNegative(d)

\* n degrees, in units of 10^-25 degree
Deg(n) == Num(n < 0, <<0, 0, 0, 0, 0, 0, 10 * Abs(n)>>)

\* RAD_TO_DEG = 57.2957795131, in units of 10^-10
RAD_TO_DEG == <<5131, 5779, 5729>>

radToDeg(rad) == Num(rad.neg, mulMag(rad.mag, RAD_TO_DEG))

\* x % 360 for |x| < 720: the remainder has the sign of the dividend
rem360(x) ==
    IF cmpMag(x.mag, Deg(360).mag) < 0 THEN x
    ELSE Num(x.neg, subMag(x.mag, Deg(360).mag))

\* Math.PI, the double 3.141592653589793..., in units of 10^-15 (rounded down)
MathPI == <<9793, 5358, 5926, 3141>>

\* Math.PI / 2, the double 1.5707963267948966..., in units of 10^-15 (rounded down)
MathHalfPI == <<4896, 3267, 7963, 1570>>

\* results of Math.atan2 in getAzAlt, in [-Math.PI, Math.PI]: both ends, 0, 1, -pi/2
\* and -3.1415926535892384, the azimuth getAzAlt computes for the Sun at
\* new Date(1762602247000), latitude 51, longitude 179.9973758249438
RawAzimuths ==
    {Num(TRUE, MathPI), Num(TRUE, <<9238, 5358, 5926, 3141>>), Num(TRUE, MathHalfPI),
     Num(FALSE, <<0>>), Num(FALSE, <<0, 0, 0, 1000>>), Num(FALSE, MathPI)}

\* results of Math.asin in getAzAlt, in [-Math.PI/2, Math.PI/2]
RawAltitudes ==
    {Num(TRUE, MathHalfPI), Num(FALSE, <<0>>), Num(FALSE, <<0, 0, 0, 500>>),
     Num(FALSE, MathHalfPI)}

\* results of Math.cos, in thousandths
CosValues == {(2000 \div CosSteps) * k - 1000 : k \in 0..CosSteps}

\* <<cos(M), cos(2M + C)>> of getSunDistanceAU, in thousandths, at the solar mean
\* anomalies M = 0, pi/2 and pi (C = 0, 0.0334 and 0)
SunAnomalies == {<<1000, 1000>>, <<0, -999>>, <<-1000, 1000>>}

\* AU_IN_CM = 1.495978707e13, as centimetres per 10^-8 AU, in units of 10^-4
AU_IN_CM == <<8707, 9597, 14>>

\* getSunDistanceAU(M, C), in units of 10^-8 AU
getSunDistanceAU(cosM, cos2MC) == 100014000 - 1671 * cosM - 14 * cos2MC

\* getMoonCoords(d).dist, in thousandths of a kilometre
moonDist(cosM) == 385001000 - 20905 * cosM

\* (variant: kilometres converted to metres)
kmToCm_metres(dist) == Num(FALSE, toMag(dist))

\* moon.dist * 100000, km -> cm
kmToCm(dist) == Num(FALSE, mulMag(toMag(dist), <<100>>))

\* what both solvers return from the azimuth and altitude of getAzAlt
skyLocation(azimuth, altitude, distance) ==
    [azimuth |-> rem360(plus(radToDeg(azimuth), Deg(180))),
     altitude |-> radToDeg(altitude),
     distance |-> distance]

\* getSunPosition's return value; distance in units of 10^-4 cm
getSunPosition(azimuth, altitude, anomaly) ==
    skyLocation(azimuth, altitude,
                Num(FALSE, mulMag(toMag(getSunDistanceAU(anomaly[1], anomaly[2])), AU_IN_CM)))

\* getMoonPosition's return value; distance in cm
getMoonPosition(azimuth, altitude, cosM) ==
    skyLocation(azimuth, altitude, kmToCm(moonDist(cosM)))

InitSolver ==
    /\ now = StartTime
    /\ tracking = TRUE
    /\ cam = TRUE
    /\ specs \in BOOLEAN
    /\ frontCameraFlip = Undefined
    /\ isSearching = [k \in OrbKinds |-> FALSE]
    /\ locationService = Undefined
    /\ headingHandlers = 0
    /\ foundHeading = Undefined
    /\ foundHeadingTime = Undefined
    /\ tilt = Undefined
    /\ requests = <<>>
    /\ lastEvent = NoEvent

\* getSunPosition(date, latitude, longitude), for a date and place at which
\* Math.atan2, Math.asin and the two Math.cos return these values
GetSunPosition(azimuth, altitude, anomaly) ==
    /\ lastEvent' = [op |-> "getSunPosition", azimuth |-> azimuth, altitude |-> altitude,
                     cosM |-> anomaly[1],
                     out |-> getSunPosition(azimuth, altitude, anomaly)]
    /\ UNCHANGED <<now, trackerVars>>

\* getMoonPosition(date, latitude, longitude), likewise
GetMoonPosition(azimuth, altitude, cosM) ==
    /\ lastEvent' = [op |-> "getMoonPosition", azimuth |-> azimuth, altitude |-> altitude,
                     cosM |-> cosM,
                     out |-> getMoonPosition(azimuth, altitude, cosM)]
    /\ UNCHANGED <<now, trackerVars>>

NextSolver ==
    \/ \E az \in RawAzimuths, alt \in RawAltitudes, an \in SunAnomalies :
           GetSunPosition(az, alt, an)
    \/ \E az \in RawAzimuths, alt \in RawAltitudes, c \in CosValues :
           GetMoonPosition(az, alt, c)

SpecSolver == InitSolver /\ [][NextSolver]_vars

solved == lastEvent.op \in {"getSunPosition", "getMoonPosition"}

\* C13: the azimuth returned by the Sun and Moon solvers lies in [0, 360) and the
\* altitude in [-90, 90], for every value Math.atan2 and Math.asin can return.
C13_AzimuthAltitudeInRange ==
    solved
        => /\ ~isNegative(lastEvent.out.azimuth)
           /\ less(lastEvent.out.azimuth, Deg(360))
           /\ ~less(lastEvent.out.altitude, Deg(-90))
           /\ ~less(Deg(90), lastEvent.out.altitude)

\* C14: the Moon distance is positive and lies within 3.56e7 cm and 4.07e7 cm.
C14_MoonDistanceE7 ==
    lastEvent.op = "getMoonPosition"
        => /\ ~lastEvent.out.distance.neg
           /\ cmpMag(lastEvent.out.distance.mag, <<0, 3560>>) >= 0
           /\ cmpMag(lastEvent.out.distance.mag, <<0, 4070>>) <= 0

\* C14 (amended): the Moon distance is positive and lies within 3.56e10 cm and
\* 4.07e10 cm (356 000 km to 407 000 km).
C14_MoonDistanceE10 ==
    lastEvent.op = "getMoonPosition"
        => /\ ~lastEvent.out.distance.neg
           /\ cmpMag(lastEvent.out.distance.mag, <<0>>) > 0
           /\ cmpMag(lastEvent.out.distance.mag, <<0, 0, 356>>) >= 0
           /\ cmpMag(lastEvent.out.distance.mag, <<0, 0, 407>>) <= 0

\* the Moon at apogee (cos(M) = -1): 405 906 km, 40 590 600 000 cm
C14_Witness ==
    /\ lastEvent.op = "getMoonPosition"
    /\ lastEvent.cosM = -1000
    /\ cmpMag(lastEvent.out.distance.mag, <<0, 9060, 405>>) = 0

====
